---- MODULE Spec2Model ----
(***************************************************************************)
(* The blog-tree admin view (BlogAdmin): the component state kept with     *)
(* useState, the requests it has in flight, and one action per handler or  *)
(* promise continuation.  A handler runs to its next await atomically      *)
(* (single-threaded event loop), and React commits a re-render before the  *)
(* next user event, so the closures a click runs see the current state.    *)
(***************************************************************************)
EXTENDS Integers, Sequences, FiniteSets, TLC

VARIABLES
  blogs,            \* useState<BlogData[]>([])            top-level list
  expandedBlogIds,  \* useState<Set<number>>(new Set())    ExpansionSet
  subblogs,         \* useState<SubblogsState>({})         ChildrenCache
  loading,          \* useState<LoadingState>({})          LoadingFlags
  searchQuery,      \* useState<string>('')
  net,              \* requests sent and not yet settled
  serverBlogs,      \* the backend's top-level list
  alerts,           \* number of window.alert calls so far
  ops,              \* number of user events so far
  last,             \* the step just taken: its name, its node, what it sent
  audit             \* when the view was last reset, which request wrote each
                    \* cache entry, whether any request has failed

vars == <<blogs, expandedBlogIds, subblogs, loading, searchQuery, net,
          serverBlogs, alerts, ops, last, audit>>

----------------------------------------------------------------------------
\* Bounds and the data the backend can hold.

MaxOps == 3

Ids == 1 .. 5

TopId == 0 - 1

None == 0

Null == << "undefined" >>

Name(i) ==
  CASE i = 1 -> << "Z", "i" >>
    [] i = 2 -> << "b", "I", "z" >>
    [] i = 3 -> Null
    [] i = 4 -> << "z" >>
    [] OTHER -> << "i", "Z" >>

BlogData(i) == [blogID |-> i, blogName |-> Name(i), parentId |-> None]

TopLevel == << BlogData(1), BlogData(2) >>

ChildOptions(p) ==
  CASE p = 1 -> { << >>, << BlogData(3) >>, << BlogData(4), BlogData(3) >> }
    [] p = 3 -> { << >>, << BlogData(5) >> }
    [] OTHER -> { << >> }

Queries == { << >>, << "z" >>, << "Z", "I" >>, << "b" >> }

----------------------------------------------------------------------------
\* Objects keyed by blog id: an entry is present or absent.

Absent == [has |-> FALSE, list |-> << >>]

EmptyObject == [i \in Ids |-> Absent]

\* Variant: the response of a node that is no longer expanded is dropped.
PutIfExpanded(obj, k, v) ==
  IF k \in expandedBlogIds THEN [obj EXCEPT ![k] = [has |-> TRUE, list |-> v]]
  ELSE obj

Put(obj, k, v) == [obj EXCEPT ![k] = [has |-> TRUE, list |-> v]]

NoFlags == [i \in Ids |-> FALSE]

----------------------------------------------------------------------------
\* Requests.

ChildGet(rid, p) ==
  [rid |-> rid, kind |-> "children", id |-> p, cont |-> "none",
   handled |-> TRUE, resp |-> << >>]

TopGet(rid, cont) ==
  [rid |-> rid, kind |-> "top", id |-> TopId, cont |-> cont,
   handled |-> FALSE, resp |-> << >>]

DeleteReq(rid, id) ==
  [rid |-> rid, kind |-> "delete", id |-> id, cont |-> "none",
   handled |-> FALSE, resp |-> << >>]

Outstanding(kind, id) == { r \in net : r.kind = kind /\ r.id = id }

Step(op, id, sent) == [op |-> op, id |-> id, sent |-> sent]

\* Bookkeeping of the history (not program state).
NoAudit == [resetAt |-> 0, origin |-> [i \in Ids |-> 0], failed |-> FALSE]

\* The cache entry of parent p was written by request rid.
Wrote(a, p, rid) == [a EXCEPT !.origin[p] = rid]

\* A request failed.
Failed(a) == [a EXCEPT !.failed = TRUE]

\* The lines of handleDelete after `await fetchBlogs()` ran at user event n.
ResetAt(a, cont, n) ==
  IF cont = "delete"
  THEN [a EXCEPT !.resetAt = n, !.origin = [i \in Ids |-> 0]]
  ELSE a

----------------------------------------------------------------------------
\* Search filter (the filteredBlogs expression).

toLowerCase(s) ==
  [k \in 1 .. Len(s) |->
     CASE s[k] = "Z" -> "z"
       [] s[k] = "I" -> "i"
       [] s[k] = "B" -> "b"
       [] OTHER -> s[k]]

includes(s, q) ==
  \E k \in 0 .. (Len(s) - Len(q)) : SubSeq(s, k + 1, k + Len(q)) = q

NameOrEmpty(blog) == IF blog.blogName = Null THEN << >> ELSE blog.blogName

\* Variant: the query is not lower-cased.
MatchesRawQuery(blog, query) ==
  includes(toLowerCase(NameOrEmpty(blog)), query)

Matches(blog, query) ==
  includes(toLowerCase(NameOrEmpty(blog)), toLowerCase(query))

RECURSIVE Filter(_, _)
Filter(list, query) ==
  IF list = << >> THEN << >>
  ELSE (IF Matches(Head(list), query) THEN << Head(list) >> ELSE << >>)
       \o Filter(Tail(list), query)

filteredBlogs == Filter(blogs, searchQuery)

----------------------------------------------------------------------------
\* Row renderer.

RECURSIVE BlogRow(_, _)
RECURSIVE RowsOf(_, _)

\* Variant: the children are rendered whether or not the node is expanded.
BlogRowIgnoresExpansion(blog, level) ==
  LET hasSubblogs == subblogs[blog.blogID].has
                     /\ Len(subblogs[blog.blogID].list) > 0
  IN  << [id |-> blog.blogID, level |-> level] >>
      \o (IF hasSubblogs
          THEN RowsOf(subblogs[blog.blogID].list, level + 1)
          ELSE << >>)

BlogRow(blog, level) ==
  LET isExpanded == blog.blogID \in expandedBlogIds
      hasSubblogs == subblogs[blog.blogID].has
                     /\ Len(subblogs[blog.blogID].list) > 0
  IN  << [id |-> blog.blogID, level |-> level] >>
      \o (IF isExpanded /\ hasSubblogs
          THEN RowsOf(subblogs[blog.blogID].list, level + 1)
          ELSE << >>)

RowsOf(list, level) ==
  IF list = << >> THEN << >>
  ELSE BlogRow(Head(list), level) \o RowsOf(Tail(list), level)

Rows == RowsOf(filteredBlogs, 0)

VisibleIds == { Rows[k].id : k \in 1 .. Len(Rows) }

----------------------------------------------------------------------------
\* Handlers.

Init ==
  /\ blogs = << >>
  /\ expandedBlogIds = {}
  /\ subblogs = EmptyObject
  /\ loading = NoFlags
  /\ searchQuery = << >>
  /\ net = { TopGet(0, "mount") }
  /\ serverBlogs = TopLevel
  /\ alerts = 0
  /\ ops = 0
  /\ last = Step("mount", TopId, { << "top", TopId >> })
  /\ audit = NoAudit

\* Variant: the flag is not raised when the fetch starts.
SetLoadingTrueDropped(flags, parentId) == flags

\* setLoading(prev => ({ ...prev, [parentId]: true }))
SetLoadingTrue(flags, parentId) == [flags EXCEPT ![parentId] = TRUE]

\* setLoading(prev => ({ ...prev, [parentId]: false })) in the finally block
SetLoadingFalse(flags, parentId) == [flags EXCEPT ![parentId] = FALSE]

\* Variant: a node whose children are cached is not fetched again.
FetchSkipsCached(parentId) == ~ loading[parentId] /\ ~ subblogs[parentId].has

\* fetchSubblogs up to its await: TRUE when the request is sent.
FetchSubblogsSends(parentId) == ~ loading[parentId]

\* fetchSubblogs(parentId), called while the set updater adds parentId
FetchSubblogs(parentId) ==
  IF FetchSubblogsSends(parentId)
  THEN /\ loading' = SetLoadingTrue(loading, parentId)
       /\ net' = net \cup { ChildGet(ops + 1, parentId) }
  ELSE UNCHANGED <<loading, net>>

\* Variant: collapsing a node also collapses the nodes cached under it.
CollapseWithChildren(set, id) ==
  set \ ({id} \cup { subblogs[id].list[k].blogID : k \in 1 .. Len(subblogs[id].list) })

\* newSet.delete(parentId)
Collapse(set, id) == set \ {id}

\* The button of a row is disabled while loading[blog.blogID].
Disabled(id) == loading[id]

\* A click on the expand/collapse button of a rendered row.
toggleExpand(id) ==
  /\ ops < MaxOps
  /\ id \in VisibleIds
  /\ ops' = ops + 1
  /\ IF Disabled(id)
     THEN /\ last' = Step("blocked", id, {})
          /\ UNCHANGED <<expandedBlogIds, loading, net>>
     ELSE IF id \in expandedBlogIds
     THEN /\ expandedBlogIds' = Collapse(expandedBlogIds, id)
          /\ last' = Step("collapse", id, {})
          /\ UNCHANGED <<loading, net>>
     ELSE /\ expandedBlogIds' = expandedBlogIds \cup {id}
          /\ FetchSubblogs(id)
          /\ last' = Step("expand", id,
                          { << r.kind, r.id >> : r \in net' \ net })
  /\ UNCHANGED <<blogs, subblogs, searchQuery, serverBlogs, alerts, audit>>

\* Variant: the fetched list is stored as returned.
WithParentDropped(list, parentId) == list

\* response.data.blogs.map(blog => ({ ...blog, parentId }))
WithParent(list, parentId) ==
  [k \in 1 .. Len(list) |-> [list[k] EXCEPT !.parentId = parentId]]

\* fetchSubblogs after its await: the request succeeded with `list`.
fetchSubblogsOk(r, list) ==
  /\ r \in net /\ r.kind = "children"
  /\ list \in ChildOptions(r.id)
  /\ subblogs' = Put(subblogs, r.id, WithParent(list, r.id))
  /\ loading' = SetLoadingFalse(loading, r.id)
  /\ net' = net \ {r}
  /\ last' = Step("childOk", r.id, {})
  /\ audit' = Wrote(audit, r.id, r.rid)
  /\ UNCHANGED <<blogs, expandedBlogIds, searchQuery, serverBlogs, alerts, ops>>

\* Variant: no finally block, so a failed fetch leaves the flag raised.
fetchSubblogsFailNoFinally(r) ==
  /\ r \in net /\ r.kind = "children"
  /\ net' = net \ {r}
  /\ last' = Step("childFail", r.id, {})
  /\ audit' = Failed(audit)
  /\ UNCHANGED <<blogs, expandedBlogIds, subblogs, loading, searchQuery,
                 serverBlogs, alerts, ops>>

\* fetchSubblogs after its await: the request failed.
fetchSubblogsFail(r) ==
  /\ r \in net /\ r.kind = "children"
  /\ loading' = SetLoadingFalse(loading, r.id)
  /\ net' = net \ {r}
  /\ last' = Step("childFail", r.id, {})
  /\ audit' = Failed(audit)
  /\ UNCHANGED <<blogs, expandedBlogIds, subblogs, searchQuery, serverBlogs,
                 alerts, ops>>

\* The backend handles a GET /blog?id=-1: the response is its current list.
serverGet(r) ==
  /\ r \in net /\ r.kind = "top" /\ ~ r.handled
  /\ net' = (net \ {r}) \cup { [r EXCEPT !.handled = TRUE, !.resp = serverBlogs] }
  /\ last' = Step("serverGet", TopId, {})
  /\ UNCHANGED <<blogs, expandedBlogIds, subblogs, loading, searchQuery,
                 serverBlogs, alerts, ops, audit>>

\* Variant: the reset forgets setSubblogs({}).
AfterRefetchKeepsCache(r) ==
  IF r.cont = "delete"
  THEN /\ expandedBlogIds' = {}
       /\ UNCHANGED subblogs
  ELSE UNCHANGED <<subblogs, expandedBlogIds>>

\* setSubblogs({}); setExpandedBlogIds(new Set()) -- the lines of handleDelete
\* that follow `await fetchBlogs()`.
AfterRefetch(r) ==
  IF r.cont = "delete"
  THEN /\ subblogs' = EmptyObject
       /\ expandedBlogIds' = {}
  ELSE UNCHANGED <<subblogs, expandedBlogIds>>

\* fetchBlogs after its await: setBlogs(response.data.blogs); a fetchBlogs
\* awaited by handleDelete then resumes handleDelete in the same task.
fetchBlogsOk(r) ==
  /\ r \in net /\ r.kind = "top" /\ r.handled
  /\ blogs' = r.resp
  /\ AfterRefetch(r)
  /\ net' = net \ {r}
  /\ last' = Step(IF r.cont = "delete" THEN "resetOk" ELSE "topOk", TopId, {})
  /\ audit' = ResetAt(audit, r.cont, ops)
  /\ UNCHANGED <<loading, searchQuery, serverBlogs, alerts, ops>>

\* Variant: the catch block empties the list (setBlogs([])).
fetchBlogsFailEmpties(r) ==
  /\ r \in net /\ r.kind = "top"
  /\ blogs' = << >>
  /\ AfterRefetch(r)
  /\ net' = net \ {r}
  /\ last' = Step(IF r.cont = "delete" THEN "resetFail" ELSE "topFail", TopId, {})
  /\ audit' = ResetAt(Failed(audit), r.cont, ops)
  /\ UNCHANGED <<loading, searchQuery, serverBlogs, alerts, ops>>

\* fetchBlogs after its await: the request failed, the error is logged and
\* swallowed, so an awaiting handleDelete resumes all the same.
fetchBlogsFail(r) ==
  /\ r \in net /\ r.kind = "top"
  /\ AfterRefetch(r)
  /\ net' = net \ {r}
  /\ last' = Step(IF r.cont = "delete" THEN "resetFail" ELSE "topFail", TopId, {})
  /\ audit' = ResetAt(Failed(audit), r.cont, ops)
  /\ UNCHANGED <<blogs, loading, searchQuery, serverBlogs, alerts, ops>>

\* window.confirm(...) answered yes: api.delete('/blog', { blogIds: [id] })
ConfirmedDelete(id) == net' = net \cup { DeleteReq(ops + 1, id) }

\* Variant: the answer of window.confirm is ignored.
CancelIgnored(id) == net' = net \cup { DeleteReq(ops + 1, id) }

\* window.confirm(...) answered no: handleDelete returns.
CancelledDelete(id) == net' = net

\* A click on the delete button of a rendered row.
handleDelete(id, confirmed) ==
  /\ ops < MaxOps
  /\ id \in VisibleIds
  /\ ops' = ops + 1
  /\ IF confirmed THEN ConfirmedDelete(id) ELSE CancelledDelete(id)
  /\ last' = Step(IF confirmed THEN "delete" ELSE "cancel", id,
                  { << r.kind, r.id >> : r \in net' \ net })
  /\ UNCHANGED <<blogs, expandedBlogIds, subblogs, loading, searchQuery,
                 serverBlogs, alerts, audit>>

RECURSIVE Without(_, _)
Without(list, id) ==
  IF list = << >> THEN << >>
  ELSE (IF Head(list).blogID = id THEN << >> ELSE << Head(list) >>)
       \o Without(Tail(list), id)

\* The backend handles a DELETE /blog.
serverDelete(r) ==
  /\ r \in net /\ r.kind = "delete" /\ ~ r.handled
  /\ serverBlogs' = Without(serverBlogs, r.id)
  /\ net' = (net \ {r}) \cup { [r EXCEPT !.handled = TRUE] }
  /\ last' = Step("serverDelete", r.id, {})
  /\ UNCHANGED <<blogs, expandedBlogIds, subblogs, loading, searchQuery,
                 alerts, ops, audit>>

\* handleDelete after `await api.delete`: it calls fetchBlogs(), which sends
\* GET /blog?id=-1 and is awaited.
handleDeleteOk(r) ==
  /\ r \in net /\ r.kind = "delete" /\ r.handled
  /\ net' = (net \ {r}) \cup { TopGet(r.rid, "delete") }
  /\ last' = Step("deleteOk", r.id, { << "top", TopId >> })
  /\ UNCHANGED <<blogs, expandedBlogIds, subblogs, loading, searchQuery,
                 serverBlogs, alerts, ops, audit>>

\* Variant: the refetch sits in a finally block, so a failed DELETE refetches.
handleDeleteFailRefetches(r) ==
  /\ r \in net /\ r.kind = "delete"
  /\ alerts' = alerts + 1
  /\ net' = (net \ {r}) \cup { TopGet(r.rid, "delete") }
  /\ last' = Step("deleteFail", r.id, { << "top", TopId >> })
  /\ audit' = Failed(audit)
  /\ UNCHANGED <<blogs, expandedBlogIds, subblogs, loading, searchQuery,
                 serverBlogs, ops>>

\* handleDelete's catch block: console.error and alert('Failed to delete blog')
handleDeleteFail(r) ==
  /\ r \in net /\ r.kind = "delete"
  /\ alerts' = alerts + 1
  /\ net' = net \ {r}
  /\ last' = Step("deleteFail", r.id, {})
  /\ audit' = Failed(audit)
  /\ UNCHANGED <<blogs, expandedBlogIds, subblogs, loading, searchQuery,
                 serverBlogs, ops>>

\* onChange of the search box: setSearchQuery(e.target.value)
setSearchQuery(q) ==
  /\ ops < MaxOps
  /\ q # searchQuery
  /\ searchQuery' = q
  /\ ops' = ops + 1
  /\ last' = Step("search", TopId, {})
  /\ UNCHANGED <<blogs, expandedBlogIds, subblogs, loading, net, serverBlogs,
                 alerts, audit>>

Next ==
  \/ \E id \in Ids : toggleExpand(id)
  \/ \E r \in net : \E list \in ChildOptions(r.id) : fetchSubblogsOk(r, list)
  \/ \E r \in net : fetchSubblogsFail(r)
  \/ \E r \in net : serverGet(r)
  \/ \E r \in net : fetchBlogsOk(r)
  \/ \E r \in net : fetchBlogsFail(r)
  \/ \E id \in Ids : \E confirmed \in BOOLEAN : handleDelete(id, confirmed)
  \/ \E r \in net : serverDelete(r)
  \/ \E r \in net : handleDeleteOk(r)
  \/ \E r \in net : handleDeleteFail(r)
  \/ \E q \in Queries : setSearchQuery(q)

Spec == Init /\ [][Next]_vars

----------------------------------------------------------------------------
\* Vocabulary of the properties.

ToggleOps == { "expand", "collapse", "blocked" }

\* The requests a step sends, and the ones it settles.
SameRequest(a, b) == a.rid = b.rid /\ a.kind = b.kind

Sent == { r \in net' : ~ \E q \in net : SameRequest(q, r) }

Settled == { r \in net : ~ \E q \in net' : SameRequest(q, r) }

ChildrenSent(id) == { r \in Sent : r.kind = "children" /\ r.id = id }

\* Children are rendered under node id (BlogRow: isExpanded && hasSubblogs).
ChildrenShown(id) ==
  /\ id \in expandedBlogIds
  /\ subblogs[id].has
  /\ Len(subblogs[id].list) > 0

----------------------------------------------------------------------------
\* C1: for a node whose child list is in ChildrenCache, a collapse followed
\* by an expand of that node sends no child-fetch request for its id.
C1_ReexpandCachedSendsNothing ==
  [][ ( /\ last.op = "collapse"
        /\ subblogs[last.id].has
        /\ last'.op = "expand"
        /\ last'.id = last.id )
      => ChildrenSent(last.id) = {} ]_vars

\* C2: a toggle that expands a collapsed node with no fetch for it
\* outstanding sends exactly one request, the child fetch for that node, and
\* a click on a node that is still expanded (not collapsed since its last
\* expand) or still loading sends none.
C2_ExpandSendsExactlyOne ==
  [][ /\ ( /\ last'.op = "expand"
           /\ Outstanding("children", last'.id) = {} )
         => /\ last'.id \notin expandedBlogIds
            /\ net \subseteq net'
            /\ Cardinality(Sent) = 1
            /\ \A r \in Sent : r.kind = "children" /\ r.id = last'.id
      /\ ( /\ last'.op \in ToggleOps
           /\ (last'.id \in expandedBlogIds \/ loading[last'.id]) )
         => net' = net ]_vars

C2_Witness ==
  /\ last.op = "expand"
  /\ last.sent = { << "children", last.id >> }
  /\ Cardinality(net) = 1
  /\ ops = 2

\* C3: at most one child fetch per node id is outstanding, and a click on
\* the toggle of a node whose fetch is outstanding sends nothing and changes
\* nothing but (at most) the ExpansionSet.
C3_OneFetchPerNode ==
  [][ /\ \A id \in Ids :
           Cardinality({ r \in net' : r.kind = "children" /\ r.id = id }) <= 1
      /\ ( /\ last'.op \in ToggleOps
           /\ Outstanding("children", last'.id) # {} )
         => /\ net' = net
            /\ UNCHANGED <<blogs, subblogs, loading, searchQuery, alerts>> ]_vars

C3_Witness ==
  /\ last.op = "blocked"
  /\ Outstanding("children", last.id) # {}
  /\ last.id \in expandedBlogIds

\* C4: when a confirmed delete whose DELETE succeeded finishes, ExpansionSet
\* and ChildrenCache are empty, and the top-level fetch it awaited was sent
\* by the step that saw the DELETE succeed -- whatever else is in flight.
C4_DeleteResetsView ==
  [][ /\ last'.op = "deleteOk"
         => \E r \in Settled :
              /\ r.kind = "delete" /\ r.handled
              /\ Sent = { TopGet(r.rid, "delete") }
      /\ (\E r \in Settled : r.kind = "top" /\ r.cont = "delete")
         => /\ expandedBlogIds' = {}
            /\ subblogs' = EmptyObject
      /\ last'.op \in { "resetOk", "resetFail" }
         => \E r \in Settled : r.kind = "top" /\ r.cont = "delete" ]_vars

C4_Witness ==
  /\ last.op = "resetOk"
  /\ \E r \in net : r.kind = "children"
  /\ expandedBlogIds = {}
  /\ subblogs = EmptyObject

\* C5: a delete click answered "no" sends no request and leaves the
\* top-level list, ExpansionSet, ChildrenCache and LoadingFlags unchanged.
C5_CancelledDeleteChangesNothing ==
  [][ last'.op = "cancel"
      => /\ net' = net
         /\ UNCHANGED <<blogs, expandedBlogIds, subblogs, loading, alerts>> ]_vars

C5_Witness ==
  /\ last.op = "cancel"
  /\ expandedBlogIds # {}
  /\ \E id \in Ids : subblogs[id].has
  /\ { r \in net : r.kind \in { "delete", "top" } } = {}

\* C6: a failed DELETE raises exactly one alert, sends no refetch and leaves
\* the top-level list, ExpansionSet and ChildrenCache as they were; a failed
\* top-level or child fetch raises no alert.
C6_DeleteFailureAlertsOnce ==
  [][ /\ (\E r \in Settled : r.kind = "delete") /\ last'.op # "deleteOk"
         => /\ alerts' = alerts + 1
            /\ Sent = {}
            /\ UNCHANGED <<blogs, expandedBlogIds, subblogs>>
      /\ last'.op \in { "topFail", "resetFail", "childFail" }
         => alerts' = alerts
      /\ alerts' # alerts => last'.op = "deleteFail" ]_vars

C6_Witness ==
  /\ last.op = "deleteFail"
  /\ alerts = 1
  /\ expandedBlogIds # {}
  /\ \E id \in Ids : subblogs[id].has

\* C7: after a failed child fetch for a node no children are rendered
\* under it and no fetch for it is outstanding, whatever its history.
C7_FailedFetchShowsNoChildren ==
  last.op = "childFail"
  => /\ ~ ChildrenShown(last.id)
     /\ Outstanding("children", last.id) = {}

\* C8: LoadingFlags[id] is true only while a child fetch for id is
\* outstanding.
C8_LoadingOnlyWhileOutstanding ==
  \A id \in Ids : loading[id] => Outstanding("children", id) # {}

C8_Witness ==
  /\ last.op = "childFail"
  /\ ~ loading[last.id]
  /\ \E id \in Ids : loading[id]

\* C9: every ChildrenCache entry is a list a child fetch keyed by its parent
\* returned, in that order, each node carrying that parent's id; only a
\* successful child fetch writes an entry (its own), only a reset removes.
SameListUnder(cached, list, p) ==
  /\ Len(cached) = Len(list)
  /\ \A k \in 1 .. Len(list) :
       /\ cached[k].blogID = list[k].blogID
       /\ cached[k].blogName = list[k].blogName
       /\ cached[k].parentId = p

C9_CacheHoldsFetchedLists ==
  [][ /\ \A p \in Ids :
           subblogs'[p].has
           => \E list \in ChildOptions(p) : SameListUnder(subblogs'[p].list, list, p)
      /\ subblogs' # subblogs
         => last'.op \in { "childOk", "resetOk", "resetFail" }
      /\ last'.op = "childOk"
         => /\ subblogs'[last'.id].has
            /\ \A p \in Ids \ { last'.id } : subblogs'[p] = subblogs[p]
      /\ last'.op \in { "resetOk", "resetFail" }
         => \A p \in Ids : ~ subblogs'[p].has ]_vars

C9_Witness ==
  /\ last.op = "childOk"
  /\ last.id = 1
  /\ Len(subblogs[1].list) = 2
  /\ subblogs[1].list[1].blogID = 4
  /\ subblogs[1].list[1].parentId = 1

\* C11: a toggle flips the ExpansionSet membership of its node and of no
\* other id; a collapse sends nothing and leaves ChildrenCache and
\* LoadingFlags unchanged, so the nodes expanded under it stay expanded.
C11_ToggleFlipsOnlyItsNode ==
  [][ /\ last'.op = "expand"
         => /\ last'.id \notin expandedBlogIds
            /\ expandedBlogIds' = expandedBlogIds \cup { last'.id }
      /\ last'.op = "collapse"
         => /\ last'.id \in expandedBlogIds
            /\ last'.id \notin expandedBlogIds'
            /\ \A id \in Ids \ { last'.id } :
                 id \in expandedBlogIds' <=> id \in expandedBlogIds
            /\ net' = net
            /\ UNCHANGED <<subblogs, loading>> ]_vars

C11_Witness ==
  /\ last.op = "collapse"
  /\ subblogs[last.id].has
  /\ \E k \in 1 .. Len(subblogs[last.id].list) :
       subblogs[last.id].list[k].blogID \in expandedBlogIds

\* C12: a child fetch that succeeds for a node that is no longer in the
\* ExpansionSet still writes the fetched list to ChildrenCache, and the node
\* stays collapsed.
C12_LateResponseStillCached ==
  [][ ( /\ last'.op = "childOk"
        /\ last'.id \notin expandedBlogIds )
      => /\ \E r \in Settled : r.kind = "children" /\ r.id = last'.id
         /\ subblogs'[last'.id].has
         /\ \E list \in ChildOptions(last'.id) :
              SameListUnder(subblogs'[last'.id].list, list, last'.id)
         /\ expandedBlogIds' = expandedBlogIds ]_vars

C12_Witness ==
  /\ last.op = "childOk"
  /\ last.id \notin expandedBlogIds
  /\ subblogs[last.id].has
  /\ Len(subblogs[last.id].list) = 2

\* C14: the rendered rows are the top-level nodes that pass the filter, at
\* depth 0, and under every rendered node that is expanded with a non-empty
\* cached list, its cached children one level deeper, unfiltered; nothing is
\* rendered under a collapsed node or a node with no or an empty list.
RowSet == { << Rows[k].id, Rows[k].level >> : k \in 1 .. Len(Rows) }

Level0 == { << filteredBlogs[k].blogID, 0 >> : k \in 1 .. Len(filteredBlogs) }

Grow(S) ==
  S \cup UNION { { << subblogs[row[1]].list[k].blogID, row[2] + 1 >> :
                     k \in 1 .. Len(subblogs[row[1]].list) } :
                 row \in { x \in S : ChildrenShown(x[1]) } }

RECURSIVE Closure(_)
Closure(S) == IF Grow(S) = S THEN S ELSE Closure(Grow(S))

\* The row that row k hangs under: the nearest earlier row one level up.
ParentRow(k) ==
  CHOOSE j \in 1 .. (k - 1) :
    /\ Rows[j].level = Rows[k].level - 1
    /\ \A i \in (j + 1) .. (k - 1) : Rows[i].level >= Rows[k].level

C14_RowsAreFilteredTopAndCachedChildren ==
  /\ RowSet = Closure(Level0)
  /\ Len(Rows) = Cardinality(RowSet)
  /\ SelectSeq(Rows, LAMBDA row : row.level = 0)
       = [k \in 1 .. Len(filteredBlogs) |-> [id |-> filteredBlogs[k].blogID, level |-> 0]]
  /\ \A k \in 1 .. Len(Rows) :
       Rows[k].level > 0
       => /\ \E j \in 1 .. (k - 1) : Rows[j].level = Rows[k].level - 1
          /\ ChildrenShown(Rows[ParentRow(k)].id)
          /\ \E c \in 1 .. Len(subblogs[Rows[ParentRow(k)].id].list) :
               subblogs[Rows[ParentRow(k)].id].list[c].blogID = Rows[k].id
  /\ \A k \in 1 .. Len(Rows) :
       ~ ChildrenShown(Rows[k].id)
       => (k = Len(Rows) \/ Rows[k + 1].level <= Rows[k].level)

C14_Witness ==
  /\ searchQuery = << "z" >>
  /\ Len(Rows) = 4
  /\ Rows[2] = [id |-> 3, level |-> 1]
  /\ Rows[3] = [id |-> 5, level |-> 2]
  /\ Rows[4] = [id |-> 2, level |-> 0]

\* C17: when the refetch that follows a successful DELETE fails, the
\* ExpansionSet and ChildrenCache are still cleared, no alert is raised and
\* the top-level list is kept; only a successful top-level fetch replaces it.
C17_FailedRefetchStillResets ==
  [][ /\ last'.op = "resetFail"
         => /\ \E r \in Settled : r.kind = "top" /\ r.cont = "delete"
            /\ expandedBlogIds' = {}
            /\ subblogs' = EmptyObject
            /\ alerts' = alerts
            /\ blogs' = blogs
      /\ blogs' # blogs => last'.op \in { "topOk", "resetOk" } ]_vars

C17_Witness ==
  /\ last.op = "resetFail"
  /\ alerts = 0
  /\ Len(blogs) = 2
  /\ Len(serverBlogs) = 1
  /\ expandedBlogIds = {}
  /\ subblogs = EmptyObject

\* C13: once a successful delete has reset the view, every ChildrenCache
\* entry was written by a child fetch sent after that reset.
C13_CacheOnlyFromFetchesAfterReset ==
  audit.resetAt > 0
  => \A p \in Ids : subblogs[p].has => audit.origin[p] > audit.resetAt

\* C15: after confirmed deletes, once every request has settled, all of
\* them successfully, the displayed top-level list is the backend's.
C15_SettledViewMatchesBackend ==
  ( /\ audit.resetAt > 0
    /\ net = {}
    /\ ~ audit.failed )
  => blogs = serverBlogs

\* Every request that is in flight settles sooner or later.
ChildSettles(id) ==
  \E r \in net :
    /\ r.id = id
    /\ \/ fetchSubblogsFail(r)
       \/ \E list \in ChildOptions(id) : fetchSubblogsOk(r, list)

FairSpec == Spec /\ \A id \in Ids : WF_vars(ChildSettles(id))

\* C16: when the request of every started child fetch settles, a raised
\* LoadingFlags[id] is lowered again, also when a delete resets the view
\* while the fetch is in flight.
C16_LoadingEventuallyCleared ==
  \A id \in Ids : loading[id] ~> ~ loading[id]

C16_Witness ==
  /\ last.op = "childFail"
  /\ ~ loading[last.id]
  /\ last.id \notin expandedBlogIds
  /\ audit.resetAt = 2
  /\ ops = 2

----------------------------------------------------------------------------
\* The search filter on its own: any top-level list of up to MaxBlogs nodes
\* and any query of up to MaxQuery characters.

MaxBlogs == 2

MaxQuery == 2

Alphabet == { "Z", "z", "I", "i", "b" }

RECURSIVE SeqsUpTo(_, _)
SeqsUpTo(S, n) ==
  IF n = 0 THEN { << >> }
  ELSE SeqsUpTo(S, n - 1)
       \cup { Append(t, x) : t \in { u \in SeqsUpTo(S, n - 1) : Len(u) = n - 1 },
                             x \in S }

FilterInit ==
  /\ blogs \in SeqsUpTo({ BlogData(i) : i \in Ids }, MaxBlogs)
  /\ expandedBlogIds = {}
  /\ subblogs = EmptyObject
  /\ loading = NoFlags
  /\ searchQuery = << >>
  /\ net = {}
  /\ serverBlogs = blogs
  /\ alerts = 0
  /\ ops = MaxOps - 1      \* one change of the query is left
  /\ last = Step("topOk", TopId, {})
  /\ audit = NoAudit

FilterNext == \E q \in SeqsUpTo(Alphabet, MaxQuery) : setSearchQuery(q)

FilterSpec == FilterInit /\ [][FilterNext]_vars

\* Two characters that are the same letter, whatever their case.
SameLetter(c, d) ==
  \/ c = d
  \/ { c, d } \in { { "Z", "z" }, { "I", "i" }, { "B", "b" } }

\* The name of top-level node k contains the query, case-insensitively.
NameContains(k, query) ==
  LET name == IF blogs[k].blogName = Null THEN << >> ELSE blogs[k].blogName
  IN  \E off \in 0 .. (Len(name) - Len(query)) :
        \A j \in 1 .. Len(query) : SameLetter(name[off + j], query[j])

Kept == { k \in 1 .. Len(blogs) : NameContains(k, searchQuery) }

\* The j-th smallest index of Kept.
KeptAt(j) == CHOOSE k \in Kept : Cardinality({ m \in Kept : m < k }) = j - 1

\* C10: the search filter returns exactly the top-level nodes whose name
\* contains the query case-insensitively, in their original order (a missing
\* name counts as empty, the empty query keeps the whole list).
C10_FilterIsCaseInsensitiveSubsequence ==
  /\ Len(filteredBlogs) = Cardinality(Kept)
  /\ \A j \in 1 .. Len(filteredBlogs) : filteredBlogs[j] = blogs[KeptAt(j)]
  /\ searchQuery = << >> => filteredBlogs = blogs

C10_Witness ==
  /\ last.op = "search"
  /\ searchQuery = << "Z", "I" >>
  /\ Len(blogs) = 2
  /\ blogs[1].blogName = Null
  /\ filteredBlogs = << blogs[2] >>

====
